---- MODULE Spec2Model ----
(***************************************************************************)
(* Model of utility/gpt_assistant_service.py: the local relay between the  *)
(* Factorio mod and the OpenAI REST API.  One request is served by one     *)
(* handler thread (ThreadingHTTPServer); the shared state is the service's *)
(* configuration object, its rate-limit snapshot with the lock guarding    *)
(* it, and the configuration file on disk.                                 *)
(***************************************************************************)
EXTENDS Integers, Sequences, FiniteSets, TLC

\* ------------------------------------------------------------ bounds
\* Requests accepted in one run, and handler threads alive at one time.
MaxRequests == 3
MaxConcurrent == 2

\* The handler threads: ThreadingHTTPServer starts one per request, and a
\* thread that has ended leaves its place to the next one.
Handlers == 1..MaxConcurrent

\* ------------------------------------------------------------ values
\* Python's None, and a value that is present.
None == <<>>
Some(v) == <<v>>

\* JSON values as json.loads returns them.
JNull == [type |-> "null", val |-> ""]
JStr(s) == [type |-> "string", val |-> s]
JBool(b) == [type |-> "bool", val |-> IF b THEN "true" ELSE "false"]
JNum(s) == [type |-> "number", val |-> s]

\* Python truth of a JSON value: None, "", False and 0 are false.
Truthy(j) ==
    CASE j.type = "null" -> FALSE
      [] j.type = "string" -> j.val # ""
      [] j.type = "bool" -> j.val = "true"
      [] j.type = "number" -> j.val # "0"
      [] OTHER -> TRUE

\* str(value) of a JSON value.
PyStr(j) ==
    CASE j.type = "null" -> "None"
      [] j.type = "bool" -> (IF j.val = "true" THEN "True" ELSE "False")
      [] OTHER -> j.val

DEFAULT_HOST == "127.0.0.1"
DEFAULT_PORT == 3925

\* ServiceConfig's default profiles, as the ordered keys of the dict.
DefaultProfiles == <<"gpt-4o", "gpt-4.1", "gpt-4.1-mini">>

\* ServiceConfig as ServiceConfig.load returns it: api_key and consent are
\* whatever setup left on disk, the rest are the dataclass defaults.
ServiceConfig(key, consent) ==
    [api_key |-> key,
     organization |-> None,
     default_model |-> "gpt-4o",
     profiles |-> DefaultProfiles,
     host |-> DEFAULT_HOST,
     port |-> DEFAULT_PORT,
     tls_enabled |-> FALSE,
     consent_acknowledged |-> consent]

\* RateLimitInfo(): every field None.
RateLimitInfo(model) ==
    [model |-> model,
     remaining_requests |-> None,
     remaining_tokens |-> None,
     reset_timestamp |-> None]

\* The fields of RateLimitInfo in the order get_rate_limit copies them.
RateLimitFields ==
    <<"remaining_requests", "remaining_tokens", "reset_timestamp", "model">>

\* int(value): the integer, or None for ValueError.
ParseInt(s) ==
    CASE s = "42" -> Some(42)
      [] s = "1000" -> Some(1000)
      [] s = "7" -> Some(7)
      [] s = "-5" -> Some(-5)
      [] OTHER -> None

\* float(value): the number, or None for ValueError.
ParseFloat(s) ==
    CASE s = "2" -> Some(2)
      [] s = "42" -> Some(42)
      [] s = "7" -> Some(7)
      [] OTHER -> None

\* Response headers of the upstream, keyed by lower-cased name; None: absent.
Headers(req, tok, reset) ==
    [requests |-> req, tokens |-> tok, reset |-> reset]

\* The loop of update_rate_limit: a fresh RateLimitInfo tagged with the model,
\* a field set from each header that is present, None where int/float raises.
BuildRateLimit(headers, model, now) ==
    [model |-> Some(model),
     remaining_requests |->
        IF headers.requests = None THEN None ELSE ParseInt(headers.requests[1]),
     remaining_tokens |->
        IF headers.tokens = None THEN None ELSE ParseInt(headers.tokens[1]),
     reset_timestamp |->
        IF headers.reset = None \/ ParseFloat(headers.reset[1]) = None
        THEN None
        ELSE Some(now + ParseFloat(headers.reset[1])[1])]

\* A field-by-field update of the old object, which keeps the old value of a
\* field the response gave no value for.
MergeRateLimit(old, rl) ==
    [f \in DOMAIN rl |-> IF rl[f] = None THEN old[f] ELSE rl[f]]

\* self.rate_limit = rl: the attribute is rebound to the new object.
AssignRateLimit(old, rl) == rl

\* ensure_ready: the RuntimeError's message, or "" when it returns.
ErrNoKey == "API key not configured"
ErrNoConsent == "Consent not acknowledged"

\* ensure_ready without its test of consent_acknowledged.
EnsureReadyKeyOnly(cfg) ==
    IF cfg.api_key = None \/ cfg.api_key = Some("") THEN ErrNoKey ELSE ""

\* ensure_ready with its two tests in the other order.
EnsureReadyConsentFirst(cfg) ==
    IF ~cfg.consent_acknowledged THEN ErrNoConsent
    ELSE IF cfg.api_key = None \/ cfg.api_key = Some("") THEN ErrNoKey
    ELSE ""

EnsureReady(cfg) ==
    IF cfg.api_key = None \/ cfg.api_key = Some("") THEN ErrNoKey
    ELSE IF ~cfg.consent_acknowledged THEN ErrNoConsent
    ELSE ""

\* ------------------------------------------------------------ inputs
\* Bodies of a request: not JSON at all, a JSON array, a JSON number, an object.
BodyKinds == {"invalid", "array", "scalar", "object"}

\* The "model" entry of a chat payload: None when the key is absent.
ChatModels == {None, Some(JStr("gpt-4.1")), Some(JNull)}

\* Status codes the upstream answers with.
UpstreamStatuses == {200, 304, 401, 503}

HeaderChoices ==
    {Headers(Some("42"), Some("1000"), None),
     Headers(Some("abc"), None, Some("2")),
     Headers(None, Some("-5"), None)}

\* time.time() when update_rate_limit runs.
Times == {100}

\* A /config payload: each known key absent (None) or present with a value.
Patch(dm, pr, ca, other) ==
    [default_model |-> dm, profiles |-> pr, consent_acknowledged |-> ca, other |-> other]

NoPatch == Patch(None, None, None, None)

Patches ==
    {NoPatch,
     Patch(Some(JStr("gpt-4.1")), None, None, None),
     Patch(None, Some(<<"gpt-4.1">>), None, None),
     Patch(None, None, Some(JBool(TRUE)), None),
     Patch(None, None, Some(JBool(FALSE)), None),
     Patch(Some(JStr("gpt-4.1")), Some(<<"gpt-4.1">>), Some(JBool(TRUE)), None),
     Patch(None, None, None, Some(JNum("1"))),
     Patch(None, None, Some(JStr("yes")), None)}

\* What a handler holds of its request: nothing yet.  model is the payload's
\* "model" entry, patch the /config payload.
NoRequest == [body |-> "", model |-> None, patch |-> NoPatch]

\* What _write_json sends: the status code and the payload's entries (detail:
\* the upstream status an "OpenAI error" message carries).
NoResponse ==
    [code |-> 0, error |-> "", detail |-> 0, ready |-> FALSE, default_model |-> "",
     profiles |-> <<>>, rate_limit |-> RateLimitInfo(None), result |-> FALSE,
     content_type |-> "", cors |-> FALSE]

\* _write_json: the headers every JSON response carries.
JsonResponse ==
    [NoResponse EXCEPT !.content_type = "application/json", !.cors = TRUE]

NoLocals ==
    [model |-> "", rl |-> RateLimitInfo(None), copy |-> RateLimitInfo(None),
     nread |-> 0, origins |-> <<>>, ready |-> "", checked |-> None,
     default_model |-> "", data |-> <<>>, exc |-> ""]

\* ------------------------------------------------------------ state
VARIABLES
    config,       \* service_instance.config, the one ServiceConfig object
    rate_limit,   \* service_instance.rate_limit
    lock,         \* holder of service_instance._lock, 0 when free
    disk,         \* CONFIG_PATH: [exists, content]
    accepted,     \* requests accepted so far
    kind,         \* per handler: "idle", "status", "chat", "config", "options",
                  \* "other_get", "other_post", "unsupported"
    pc,           \* per handler: its position
    serial,       \* per handler: the number of its request
    request,      \* per handler: what it has read of the body
    locals,       \* per handler: its local variables
    upstream,     \* per handler: status code of the upstream response, 0: none
    response,     \* per handler: what _write_json sent
    calls,        \* per handler: requests.post calls issued (history)
    commits,      \* per handler: assignments to self.rate_limit (history)
    saves,        \* per handler: cfg.save() calls (history)
    origin,       \* the request whose snapshot self.rate_limit holds (history)
    returned,     \* the request whose call_openai returned last (history)
    failed,       \* whether some /chat was answered with an error (history)
    ok_snapshot   \* the snapshot of the /chat that succeeded last (history)

vars ==
    <<config, rate_limit, lock, disk, accepted, kind, pc, serial, request,
      locals, upstream, response, calls, commits, saves, origin, returned,
      failed, ok_snapshot>>

\* ------------------------------------------------------------ helpers
\* _encode_secret: None for a missing or empty secret, else its base64 text.
EncodeSecret(secret) ==
    IF secret = None \/ secret = Some("") THEN None
    ELSE IF secret = Some("sk") THEN Some("c2s=")
    ELSE Some("b64")

\* to_json: the text written to the file, as its tokens in dict order.
ToJson(cfg) ==
    <<IF EncodeSecret(cfg.api_key) = None THEN "null" ELSE EncodeSecret(cfg.api_key)[1],
      IF cfg.organization = None THEN "null" ELSE cfg.organization[1],
      cfg.default_model>>
    \o cfg.profiles
    \o <<cfg.host, "3925",
         IF cfg.tls_enabled THEN "true" ELSE "false",
         IF cfg.consent_acknowledged THEN "true" ELSE "false">>

\* A write of `data` at offset 0 of a file holding `old`: what lies past the
\* end of data stays.
WriteAtStart(old, data) ==
    IF Len(data) >= Len(old) THEN data
    ELSE data \o SubSeq(old, Len(data) + 1, Len(old))

\* _write_json({"error": msg}, status).
ErrorResponse(code, msg) == [JsonResponse EXCEPT !.code = code, !.error = msg]

\* An except clause of /chat that answers 200 with the message.
ChatErrorAnsweredOk(msg) == ErrorResponse(200, msg)

\* do_POST /chat: except Exception -> INTERNAL_SERVER_ERROR.
ChatErrorResponse(msg) == ErrorResponse(500, msg)

\* do_POST /config: _write_json({"status": "ok"}).
ConfigOkResponse == [JsonResponse EXCEPT !.code = 200, !.result = TRUE]

\* An except clause that swallows the exception and answers ok.
ConfigErrorSwallowed(msg) == ConfigOkResponse

\* do_POST /config: except Exception -> BAD_REQUEST.
ConfigErrorResponse(msg) == ErrorResponse(400, msg)

\* An update and a read that take no lock.
CanAcquireUnlocked(holder) == TRUE

\* `with self._lock`: the lock is taken when no thread holds it.
CanAcquire(holder) == holder = 0

\* A with block that does not give the lock back when it is left.
UnlockNever(holder) == holder

\* Leaving `with self._lock`: the lock is free again.
Unlock(holder) == 0

\* One keyword argument of get_rate_limit's copy: self.rate_limit.<field>.
ReadField(loc) ==
    LET f == RateLimitFields[loc.nread + 1] IN
    [loc EXCEPT !.copy[f] = rate_limit[f],
                !.nread = @ + 1,
                !.origins = Append(@, origin)]

\* ------------------------------------------------------------ initial state
\* main(): ServiceConfig.load(), then ServiceRunner.start() builds the service
\* with an all-None RateLimitInfo and a free lock.
Init ==
    /\ \E key \in {None, Some("sk")}, consent \in BOOLEAN :
          /\ config = ServiceConfig(key, consent)
          /\ disk = [exists |-> TRUE, content |-> ToJson(ServiceConfig(key, consent))]
    /\ rate_limit = RateLimitInfo(None)
    /\ lock = 0
    /\ kind = [r \in Handlers |-> "idle"]
    /\ pc = [r \in Handlers |-> "idle"]
    /\ request = [r \in Handlers |-> NoRequest]
    /\ locals = [r \in Handlers |-> NoLocals]
    /\ upstream = [r \in Handlers |-> 0]
    /\ response = [r \in Handlers |-> NoResponse]
    /\ serial = [r \in Handlers |-> 0]
    /\ accepted = 0
    /\ failed = FALSE
    /\ ok_snapshot = RateLimitInfo(None)
    /\ calls = [r \in Handlers |-> 0]
    /\ commits = [r \in Handlers |-> 0]
    /\ saves = [r \in Handlers |-> 0]
    /\ origin = 0
    /\ returned = 0

\* ------------------------------------------------------------ front end
\* ThreadingHTTPServer hands an accepted request to a new handler thread.
Accept(r, k) ==
    /\ accepted < MaxRequests
    /\ kind[r] = "idle"
    /\ \A q \in Handlers : q < r => kind[q] # "idle"
    /\ accepted' = accepted + 1
    /\ serial' = [serial EXCEPT ![r] = accepted + 1]
    /\ kind' = [kind EXCEPT ![r] = k]
    /\ pc' = [pc EXCEPT ![r] = "received"]
    /\ UNCHANGED <<config, rate_limit, lock, disk, request, locals, upstream,
                   response, calls, commits, saves, origin, returned, failed,
                   ok_snapshot>>

AcceptStatus(r) == Accept(r, "status")

AcceptChat(r) == Accept(r, "chat")

AcceptConfig(r) == Accept(r, "config")

\* _write_json(payload, status): the response leaves.
Send(r, resp) ==
    /\ response' = [response EXCEPT ![r] = resp]
    /\ failed' = (failed \/ (kind[r] = "chat" /\ resp.code # 200))
    /\ pc' = [pc EXCEPT ![r] = "done"]

\* A handler with no except clause: the exception ends the thread and no
\* response is sent.
RaiseUncaught(r, msg, resp) ==
    /\ locals' = [locals EXCEPT ![r].exc = msg]
    /\ pc' = [pc EXCEPT ![r] = "crashed"]
    /\ UNCHANGED <<response, failed>>

\* `except Exception as exc`: the handler catches what was raised and sends
\* the error response.
Raise(r, msg, resp) ==
    /\ locals' = [locals EXCEPT ![r].exc = msg]
    /\ Send(r, resp)

\* The handler returns: the connection is closed and the thread ends.
Finish(r) ==
    /\ pc[r] = "done"
    /\ kind' = [kind EXCEPT ![r] = "idle"]
    /\ pc' = [pc EXCEPT ![r] = "idle"]
    /\ serial' = [serial EXCEPT ![r] = 0]
    /\ request' = [request EXCEPT ![r] = NoRequest]
    /\ locals' = [locals EXCEPT ![r] = NoLocals]
    /\ response' = [response EXCEPT ![r] = NoResponse]
    /\ upstream' = [upstream EXCEPT ![r] = 0]
    /\ calls' = [calls EXCEPT ![r] = 0]
    /\ commits' = [commits EXCEPT ![r] = 0]
    /\ saves' = [saves EXCEPT ![r] = 0]
    /\ UNCHANGED <<config, rate_limit, lock, disk, accepted, origin,
                   returned, failed, ok_snapshot>>

\* ------------------------------------------------------------ get_rate_limit
\* Entered by /status after ensure_ready and by /chat after call_openai
\* returned: the lock is taken and the first field copied.
GetAcquire(r) ==
    /\ pc[r] = "get_acquire"
    /\ CanAcquire(lock)
    /\ lock' = r
    /\ pc' = [pc EXCEPT ![r] = "get_read"]
    /\ locals' = [locals EXCEPT ![r] = ReadField([@ EXCEPT !.nread = 0, !.origins = <<>>])]
    /\ UNCHANGED <<config, rate_limit, disk, kind, request, upstream,
                   response, calls, commits, saves, origin, returned,
                   accepted, serial, failed, ok_snapshot>>

\* The next field is copied, the lock held.
GetRead(r) ==
    /\ pc[r] = "get_read"
    /\ locals[r].nread < Len(RateLimitFields) - 1
    /\ locals' = [locals EXCEPT ![r] = ReadField(@)]
    /\ UNCHANGED <<config, rate_limit, lock, disk, kind, pc, request,
                   upstream, response, calls, commits, saves, origin,
                   returned, accepted, serial, failed, ok_snapshot>>

\* The last field is copied and the lock released; /chat sends
\* {result, rate_limit}, /status goes on to read the configuration.
GetRelease(r) ==
    /\ pc[r] = "get_read"
    /\ locals[r].nread = Len(RateLimitFields) - 1
    /\ lock' = Unlock(lock)
    /\ locals' = [locals EXCEPT ![r] = ReadField(@)]
    /\ IF kind[r] = "chat"
       THEN Send(r, [JsonResponse EXCEPT !.code = 200, !.result = TRUE,
                                         !.rate_limit = ReadField(locals[r]).copy])
       ELSE /\ pc' = [pc EXCEPT ![r] = "status_model"]
            /\ UNCHANGED <<response, failed>>
    /\ UNCHANGED <<config, rate_limit, disk, kind, request, upstream, calls,
                   commits, saves, origin, returned, accepted, serial,
                   ok_snapshot>>

\* ------------------------------------------------------------ GET /status
\* do_GET: ensure_ready() decides ready and error.
StatusEnsureReady(r) ==
    /\ kind[r] = "status"
    /\ pc[r] = "received"
    /\ locals' = [locals EXCEPT ![r].ready = EnsureReady(config),
                                ![r].checked = Some(config)]
    /\ pc' = [pc EXCEPT ![r] = "get_acquire"]
    /\ UNCHANGED <<config, rate_limit, lock, disk, kind, request, upstream,
                   response, calls, commits, saves, origin, returned,
                   accepted, serial, failed, ok_snapshot>>

\* The payload's "default_model": cfg.default_model is read.
StatusReadModel(r) ==
    /\ pc[r] = "status_model"
    /\ locals' = [locals EXCEPT ![r].default_model = config.default_model]
    /\ pc' = [pc EXCEPT ![r] = "status_profiles"]
    /\ UNCHANGED <<config, rate_limit, lock, disk, kind, request, upstream,
                   response, calls, commits, saves, origin, returned,
                   accepted, serial, failed, ok_snapshot>>

\* The payload's "profiles": cfg.profiles is read, and the payload is sent.
StatusReadProfiles(r) ==
    /\ pc[r] = "status_profiles"
    /\ Send(r, [JsonResponse EXCEPT !.code = 200,
                                    !.ready = (locals[r].ready = ""),
                                    !.error = locals[r].ready,
                                    !.default_model = locals[r].default_model,
                                    !.profiles = config.profiles,
                                    !.rate_limit = locals[r].copy])
    /\ UNCHANGED <<config, rate_limit, lock, disk, kind, request, locals,
                   upstream, calls, commits, saves, origin, returned,
                   accepted, serial, ok_snapshot>>

\* ------------------------------------------------------------ POST /chat
\* call_openai: `response.status_code >= 400` raises RuntimeError.
UpstreamFailed(status) == status >= 400

\* call_openai: model = payload.get("model") or self.config.default_model.
EffectiveModel(payload_model, default_model) ==
    IF payload_model # None /\ Truthy(payload_model[1])
    THEN PyStr(payload_model[1])
    ELSE default_model

\* call_openai: payload.setdefault("model", model) sets the key only when the
\* payload has none.
SetDefaultModel(payload_model, model) ==
    IF payload_model = None THEN Some(JStr(model)) ELSE payload_model

\* do_POST: payload = self._read_json(), where a body that is not JSON raises;
\* then call_openai begins with self.ensure_ready().
ChatEnsureReady(r) ==
    /\ kind[r] = "chat"
    /\ pc[r] = "received"
    /\ \E b \in BodyKinds \ {"scalar"} :
          /\ request' = [request EXCEPT ![r].body = b]
          /\ IF b = "invalid"
             THEN Raise(r, "ValueError", ChatErrorResponse("Invalid JSON payload"))
             ELSE IF EnsureReady(config) # ""
             THEN /\ locals' = [locals EXCEPT ![r].ready = EnsureReady(config),
                                              ![r].checked = Some(config),
                                              ![r].exc = "RuntimeError"]
                  /\ Send(r, ChatErrorResponse(EnsureReady(config)))
             ELSE /\ locals' = [locals EXCEPT ![r].ready = EnsureReady(config),
                                              ![r].checked = Some(config)]
                  /\ pc' = [pc EXCEPT ![r] = "post"]
                  /\ UNCHANGED <<response, failed>>
    /\ UNCHANGED <<config, rate_limit, lock, disk, kind, upstream, calls,
                   commits, saves, origin, returned, accepted, serial,
                   ok_snapshot>>

\* call_openai: the model is chosen and put into the payload (a payload that
\* is no dict has no .get and raises AttributeError), the headers are built
\* and requests.post(.../chat/completions, timeout=90) is issued.
ChatPost(r) ==
    /\ pc[r] = "post"
    /\ IF request[r].body # "object"
       THEN /\ Raise(r, "AttributeError", ChatErrorResponse("AttributeError"))
            /\ UNCHANGED <<calls, request>>
       ELSE \E m \in ChatModels :
            /\ request' =
                 [request EXCEPT
                    ![r].model =
                        SetDefaultModel(m, EffectiveModel(m, config.default_model))]
            /\ locals' =
                 [locals EXCEPT
                    ![r].model = EffectiveModel(m, config.default_model)]
            /\ calls' = [calls EXCEPT ![r] = @ + 1]
            /\ pc' = [pc EXCEPT ![r] = "await"]
            /\ UNCHANGED <<response, failed>>
    /\ UNCHANGED <<config, rate_limit, lock, disk, kind, upstream, commits,
                   saves, origin, returned, accepted, serial, ok_snapshot>>

\* requests.post raises: connection error or timeout.
ChatTransportError(r) ==
    /\ pc[r] = "await"
    /\ Raise(r, "RequestException", ChatErrorResponse("transport"))
    /\ UNCHANGED <<config, rate_limit, lock, disk, kind, request, upstream,
                   calls, commits, saves, origin, returned, accepted, serial,
                   ok_snapshot>>

\* requests.post returns: a failed status raises, otherwise update_rate_limit
\* builds its RateLimitInfo from the headers.
ChatUpstreamReturns(r) ==
    /\ pc[r] = "await"
    /\ \E st \in UpstreamStatuses :
          /\ upstream' = [upstream EXCEPT ![r] = st]
          /\ IF UpstreamFailed(st)
             THEN Raise(r, "RuntimeError",
                        [ChatErrorResponse("OpenAI error") EXCEPT !.detail = st])
             ELSE \E h \in HeaderChoices, now \in Times :
                  /\ locals' = [locals EXCEPT ![r].rl = BuildRateLimit(h, locals[r].model, now)]
                  /\ pc' = [pc EXCEPT ![r] = "upd_assign"]
                  /\ UNCHANGED <<response, failed>>
    /\ UNCHANGED <<config, rate_limit, lock, disk, kind, request, calls,
                   commits, saves, origin, returned, accepted, serial,
                   ok_snapshot>>

\* update_rate_limit: `with self._lock: self.rate_limit = rl`; the lock is
\* taken, the attribute rebound and the lock released.
UpdAssign(r) ==
    /\ pc[r] = "upd_assign"
    /\ CanAcquire(lock)
    /\ rate_limit' = AssignRateLimit(rate_limit, locals[r].rl)
    /\ commits' = [commits EXCEPT ![r] = @ + 1]
    /\ origin' = serial[r]
    /\ lock' = Unlock(r)
    /\ pc' = [pc EXCEPT ![r] = "parse_body"]
    /\ UNCHANGED <<config, disk, kind, request, locals, upstream, response,
                   calls, saves, returned, failed, accepted, serial,
                   ok_snapshot>>

\* call_openai: return response.json(); a body that is not JSON raises, else
\* call_openai returns and do_POST calls get_rate_limit.
ChatParseBody(r) ==
    /\ pc[r] = "parse_body"
    /\ upstream' = [upstream EXCEPT ![r] = 0]
    /\ \E body_ok \in BOOLEAN :
          IF body_ok
          THEN /\ returned' = serial[r]
               /\ ok_snapshot' = IF origin = serial[r] THEN locals[r].rl ELSE ok_snapshot
               /\ pc' = [pc EXCEPT ![r] = "get_acquire"]
               /\ UNCHANGED <<response, failed, locals>>
          ELSE /\ Raise(r, "JSONDecodeError", ChatErrorResponse("JSONDecodeError"))
               /\ UNCHANGED <<returned, ok_snapshot>>
    /\ UNCHANGED <<config, rate_limit, lock, disk, kind, request, calls, commits,
                   saves, origin, accepted, serial>>

\* ------------------------------------------------------------ POST /config
\* if "default_model" in payload: cfg.default_model = str(payload[...]).
ApplyDefaultModel(cfg, patch) ==
    IF patch.default_model = None THEN cfg
    ELSE [cfg EXCEPT !.default_model = PyStr(patch.default_model[1])]

\* if "profiles" in payload: cfg.profiles = payload["profiles"].
ApplyProfiles(cfg, patch) ==
    IF patch.profiles = None THEN cfg
    ELSE [cfg EXCEPT !.profiles = patch.profiles[1]]

\* cfg.consent_acknowledged = bool(payload.get("consent_acknowledged")),
\* without the test of the key's presence.
ApplyConsentUnguarded(cfg, patch) ==
    [cfg EXCEPT !.consent_acknowledged =
        patch.consent_acknowledged # None /\ Truthy(patch.consent_acknowledged[1])]

\* if "consent_acknowledged" in payload: cfg.consent_acknowledged = bool(...).
ApplyConsent(cfg, patch) ==
    IF patch.consent_acknowledged = None THEN cfg
    ELSE [cfg EXCEPT !.consent_acknowledged = Truthy(patch.consent_acknowledged[1])]

\* do_POST: payload = self._read_json(), where a body that is not JSON raises;
\* then `"default_model" in payload`, which raises TypeError for a payload
\* that is a number, true, false or null (a list holds no such key), and the
\* assignment of cfg.default_model.
ConfigSetDefaultModel(r) ==
    /\ kind[r] = "config"
    /\ pc[r] = "received"
    /\ \E b \in BodyKinds, p \in Patches :
          /\ b # "object" => p = NoPatch
          /\ request' = [request EXCEPT ![r].body = b, ![r].patch = p]
          /\ IF b = "invalid"
             THEN /\ Raise(r, "ValueError", ConfigErrorResponse("Invalid JSON payload"))
                  /\ UNCHANGED config
             ELSE IF b = "scalar"
             THEN /\ Raise(r, "TypeError", ConfigErrorResponse("TypeError"))
                  /\ UNCHANGED config
             ELSE /\ config' = ApplyDefaultModel(config, p)
                  /\ pc' = [pc EXCEPT ![r] = "patch_profiles"]
                  /\ UNCHANGED <<response, failed, locals>>
    /\ UNCHANGED <<rate_limit, lock, disk, kind, upstream, calls, commits,
                   saves, origin, returned, accepted, serial, ok_snapshot>>

ConfigSetProfiles(r) ==
    /\ pc[r] = "patch_profiles"
    /\ config' = ApplyProfiles(config, request[r].patch)
    /\ pc' = [pc EXCEPT ![r] = "patch_consent"]
    /\ UNCHANGED <<rate_limit, lock, disk, kind, request, locals, upstream,
                   response, calls, commits, saves, origin, returned,
                   accepted, serial, failed, ok_snapshot>>

ConfigSetConsent(r) ==
    /\ pc[r] = "patch_consent"
    /\ config' = ApplyConsent(config, request[r].patch)
    /\ pc' = [pc EXCEPT ![r] = "save_open"]
    /\ UNCHANGED <<rate_limit, lock, disk, kind, request, locals, upstream,
                   response, calls, commits, saves, origin, returned,
                   accepted, serial, failed, ok_snapshot>>

\* cfg.save(): CONFIG_DIR.mkdir and CONFIG_PATH.open("w"), which empties the
\* file; either may raise OSError.
SaveOpen(r) ==
    /\ pc[r] = "save_open"
    /\ saves' = [saves EXCEPT ![r] = @ + 1]
    /\ \E ok \in BOOLEAN :
          IF ok
          THEN /\ disk' = [exists |-> TRUE, content |-> <<>>]
               /\ pc' = [pc EXCEPT ![r] = "save_dump"]
               /\ UNCHANGED <<response, failed, locals>>
          ELSE /\ Raise(r, "OSError", ConfigErrorResponse("OSError"))
               /\ UNCHANGED disk
    /\ UNCHANGED <<config, rate_limit, lock, kind, request, upstream, calls,
                   commits, origin, returned, accepted, serial, ok_snapshot>>

\* cfg.save(): self.to_json() reads the configuration.
SaveDump(r) ==
    /\ pc[r] = "save_dump"
    /\ locals' = [locals EXCEPT ![r].data = ToJson(config)]
    /\ pc' = [pc EXCEPT ![r] = "save_write"]
    /\ UNCHANGED <<config, rate_limit, lock, disk, kind, request, upstream,
                   response, calls, commits, saves, origin, returned,
                   accepted, serial, failed, ok_snapshot>>

\* cfg.save(): fh.write and the close that flushes it, at the start of the
\* file; on OSError nothing is written.  Then {"status": "ok"} is sent.
SaveWrite(r) ==
    /\ pc[r] = "save_write"
    /\ \E ok \in BOOLEAN :
          IF ok
          THEN /\ disk' = [disk EXCEPT !.content = WriteAtStart(@, locals[r].data)]
               /\ Send(r, ConfigOkResponse)
               /\ UNCHANGED locals
          ELSE /\ Raise(r, "OSError", ConfigErrorResponse("OSError"))
               /\ UNCHANGED disk
    /\ UNCHANGED <<config, rate_limit, lock, kind, request, upstream, calls,
                   commits, saves, origin, returned, accepted, serial,
                   ok_snapshot>>

\* ------------------------------------------------------------ other routes
AcceptOptions(r) == Accept(r, "options")

AcceptOtherGet(r) == Accept(r, "other_get")

AcceptOtherPost(r) == Accept(r, "other_post")

\* A method the class defines no do_<METHOD> for (PUT, DELETE, HEAD, ...).
AcceptUnsupported(r) == Accept(r, "unsupported")

\* do_OPTIONS: 204 with the Access-Control-Allow-* headers and no body.
Options(r) ==
    /\ kind[r] = "options"
    /\ pc[r] = "received"
    /\ Send(r, [NoResponse EXCEPT !.code = 204, !.cors = TRUE])
    /\ UNCHANGED <<config, rate_limit, lock, disk, kind, request, locals,
                   upstream, calls, commits, saves, origin, returned,
                   accepted, serial, ok_snapshot>>

\* The else branch of do_GET and of do_POST:
\* _write_json({"error": "Not found"}, status=NOT_FOUND).
NotFound(r) ==
    /\ kind[r] \in {"other_get", "other_post"}
    /\ pc[r] = "received"
    /\ Send(r, ErrorResponse(404, "Not found"))
    /\ UNCHANGED <<config, rate_limit, lock, disk, kind, request, locals,
                   upstream, calls, commits, saves, origin, returned,
                   accepted, serial, ok_snapshot>>

\* BaseHTTPRequestHandler.handle_one_request finds no do_<METHOD> and calls
\* send_error(501): an HTML error page, sent without _write_json's headers.
Unsupported(r) ==
    /\ kind[r] = "unsupported"
    /\ pc[r] = "received"
    /\ Send(r, [NoResponse EXCEPT !.code = 501,
                                  !.error = "Unsupported method",
                                  !.content_type = "text/html"])
    /\ UNCHANGED <<config, rate_limit, lock, disk, kind, request, locals,
                   upstream, calls, commits, saves, origin, returned,
                   accepted, serial, ok_snapshot>>

\* ------------------------------------------------------------ specifications
GetRateLimit(r) == GetAcquire(r) \/ GetRead(r) \/ GetRelease(r)

StatusStep(r) ==
    \/ AcceptStatus(r)
    \/ StatusEnsureReady(r)
    \/ StatusReadModel(r)
    \/ StatusReadProfiles(r)

ChatStep(r) ==
    \/ AcceptChat(r)
    \/ ChatEnsureReady(r)
    \/ ChatPost(r)
    \/ ChatTransportError(r)
    \/ ChatUpstreamReturns(r)
    \/ UpdAssign(r)
    \/ ChatParseBody(r)

ConfigStep(r) ==
    \/ AcceptConfig(r)
    \/ ConfigSetDefaultModel(r)
    \/ ConfigSetProfiles(r)
    \/ ConfigSetConsent(r)
    \/ SaveOpen(r)
    \/ SaveDump(r)
    \/ SaveWrite(r)

RoutingStep(r) ==
    \/ AcceptOptions(r)
    \/ AcceptOtherGet(r)
    \/ AcceptOtherPost(r)
    \/ AcceptUnsupported(r)
    \/ Options(r)
    \/ NotFound(r)
    \/ Unsupported(r)

\* The whole service.
Next ==
    \E r \in Handlers :
        \/ Finish(r)
        \/ GetRateLimit(r)
        \/ StatusStep(r)
        \/ ChatStep(r)
        \/ ConfigStep(r)
        \/ RoutingStep(r)

Spec == Init /\ [][Next]_vars

\* The relay alone: /status and /chat requests.
NextRelay ==
    \E r \in Handlers : Finish(r) \/ GetRateLimit(r) \/ StatusStep(r) \/ ChatStep(r)

SpecRelay == Init /\ [][NextRelay]_vars

\* The configuration alone: /status and /config requests.
NextConfig ==
    \E r \in Handlers : Finish(r) \/ GetRateLimit(r) \/ StatusStep(r) \/ ConfigStep(r)

SpecConfig == Init /\ [][NextConfig]_vars

\* do_POST alone: /chat and /config requests.
NextPost ==
    \E r \in Handlers : Finish(r) \/ GetRateLimit(r) \/ ChatStep(r) \/ ConfigStep(r)

SpecPost == Init /\ [][NextPost]_vars

\* The requests that touch no shared state: OPTIONS, the paths and the
\* methods outside the routing table.
NextRouting == \E r \in Handlers : Finish(r) \/ RoutingStep(r)

SpecRouting == Init /\ [][NextRouting]_vars

\* What the thread of handler r does once it has its request: every step but
\* the acceptance of a request, which waits for a client.
Run(r) ==
    \/ Finish(r)
    \/ GetRateLimit(r)
    \/ StatusEnsureReady(r)
    \/ StatusReadModel(r)
    \/ StatusReadProfiles(r)
    \/ ChatEnsureReady(r)
    \/ ChatPost(r)
    \/ ChatTransportError(r)
    \/ ChatUpstreamReturns(r)
    \/ UpdAssign(r)
    \/ ChatParseBody(r)
    \/ ConfigSetDefaultModel(r)
    \/ ConfigSetProfiles(r)
    \/ ConfigSetConsent(r)
    \/ SaveOpen(r)
    \/ SaveDump(r)
    \/ SaveWrite(r)
    \/ Options(r)
    \/ NotFound(r)
    \/ Unsupported(r)

\* The whole service, one request fewer, with threads that are scheduled
\* again and again and an upstream that answers, fails or times out
\* (timeout=90).
RequestKinds ==
    {"status", "chat", "config", "options", "other_get", "other_post",
     "unsupported"}

AcceptFewer(r) ==
    /\ accepted + 1 < MaxRequests
    /\ \E k \in RequestKinds : Accept(r, k)

NextFair == \E r \in Handlers : AcceptFewer(r) \/ Run(r)

SpecFair == Init /\ [][NextFair]_vars /\ \A r \in Handlers : WF_vars(Run(r))

\* ------------------------------------------------------------ properties
\* Whether a configuration holds a credential (`not self.config.api_key`).
HasCredential(cfg) == cfg.api_key # None /\ cfg.api_key # Some("")

\* No /chat handler is inside call_openai.
NoCallInProgress ==
    \A r \in Handlers :
        kind[r] = "chat" => pc[r] \in {"get_acquire", "get_read", "done"}

\* C1: a /chat request issues at most one upstream call, and none when its
\* readiness check failed (credential absent or consent not acknowledged):
\* it is then answered with the readiness error.
RelayCallsUpstreamAtMostOnce ==
    \A r \in Handlers :
        kind[r] = "chat" =>
            /\ calls[r] <= 1
            /\ (/\ locals[r].checked # None
                /\ (\/ ~HasCredential(locals[r].checked[1])
                    \/ ~locals[r].checked[1].consent_acknowledged))
               => /\ calls[r] = 0
                  /\ pc[r] = "done"
                  /\ response[r].code = 500
                  /\ response[r].error \in {ErrNoKey, ErrNoConsent}

\* A /chat request refused for want of consent, no upstream call made.
RelayRefusedWithoutCall ==
    \E r \in Handlers :
        /\ kind[r] = "chat"
        /\ pc[r] = "done"
        /\ locals[r].checked # None
        /\ HasCredential(locals[r].checked[1])
        /\ ~locals[r].checked[1].consent_acknowledged
        /\ calls[r] = 0
        /\ response[r].error = ErrNoConsent

\* C2: under any interleaving of update_rate_limit and get_rate_limit, the
\* fields get_rate_limit copies all come from one update (or all from the
\* initial snapshot): while it copies, the lock is its own and what it has
\* copied is what the cache holds, and the copy it returns is what is sent.
NoTornRead ==
    \A r \in Handlers :
        /\ \A i, j \in 1..Len(locals[r].origins) :
              locals[r].origins[i] = locals[r].origins[j]
        /\ pc[r] = "get_read" =>
              /\ lock = r
              /\ \A k \in 1..locals[r].nread :
                    locals[r].copy[RateLimitFields[k]] = rate_limit[RateLimitFields[k]]
        /\ (pc[r] = "done" /\ response[r].code = 200) =>
              /\ Len(locals[r].origins) = Len(RateLimitFields)
              /\ response[r].rate_limit = locals[r].copy

\* A read that is half done while another handler waits to store a snapshot
\* that differs from the one being read.
ReadRacesUpdate ==
    \E r, q \in Handlers :
        /\ pc[r] = "get_read"
        /\ locals[r].nread \in 1..(Len(RateLimitFields) - 1)
        /\ pc[q] = "upd_assign"
        /\ locals[q].rl # rate_limit

\* C3 as stated: once every /chat call has returned, and all of them
\* succeeded, the cache holds the snapshot of the call that returned last.
LastCompletedCallWins ==
    (NoCallInProgress /\ ~failed /\ returned # 0) => origin = returned

\* C3, amended: the cache holds, whole, the snapshot of the call that ran
\* update_rate_limit last, every field from that one response; nothing else
\* changes the cache.
LastCommitFills ==
    /\ origin = 0 => rate_limit = RateLimitInfo(None)
    /\ \A r \in Handlers :
          (kind[r] = "chat" /\ commits[r] = 1 /\ origin = serial[r])
              => rate_limit = locals[r].rl

OnlyCommitChangesCache ==
    rate_limit' # rate_limit =>
        \E r \in Handlers :
            /\ pc[r] = "upd_assign"
            /\ pc'[r] = "parse_body"
            /\ origin' = serial[r]
            /\ rate_limit' = locals[r].rl

LastCommitWins == []LastCommitFills /\ [][OnlyCommitChangesCache]_vars

\* Two successful calls have both returned, and the cache holds the snapshot
\* of the one that stored last though the other returned last.
LastCommitIsNotLastReturn ==
    /\ NoCallInProgress
    /\ ~failed
    /\ \E r, q \in Handlers :
          /\ serial[r] = origin
          /\ serial[q] = returned
          /\ r # q
          /\ commits[r] = 1
          /\ commits[q] = 1
          /\ rate_limit = locals[r].rl
          /\ rate_limit # locals[q].rl

\* C4 as stated: a /chat call stores a snapshot once when it is answered with
\* success and never when it is answered with a failure.
CommitsOnlyOnSuccess ==
    \A r \in Handlers :
        (kind[r] = "chat" /\ pc[r] = "done") =>
            commits[r] = IF response[r].code = 200 THEN 1 ELSE 0

\* C5 as stated: an upstream status outside 2xx fails the call with an error
\* that carries the status, the cache untouched.
NonSuccessStatusFails ==
    \A r \in Handlers :
        (upstream[r] # 0 /\ ~(upstream[r] >= 200 /\ upstream[r] < 300)) =>
            /\ pc[r] = "done"
            /\ response[r].code = 500
            /\ response[r].detail = upstream[r]
            /\ commits[r] = 0

\* C6 as stated: the rate_limit of a successful /chat response is the
\* snapshot that same call built and stored.
ChatReportsOwnSnapshot ==
    \A r \in Handlers :
        (kind[r] = "chat" /\ pc[r] = "done" /\ response[r].code = 200) =>
            response[r].rate_limit = locals[r].rl

\* C7: ensure_ready is a function of the configuration it reads: the missing
\* credential is reported whatever the consent flag, missing consent when a
\* credential is set, and success exactly when both hold; the call changes
\* neither the configuration nor the cache.
EnsureReadyResult ==
    \A r \in Handlers :
        locals[r].checked # None =>
            LET cfg == locals[r].checked[1] IN
            /\ ~HasCredential(cfg) => locals[r].ready = ErrNoKey
            /\ (HasCredential(cfg) /\ ~cfg.consent_acknowledged)
                  => locals[r].ready = ErrNoConsent
            /\ locals[r].ready = "" <=>
                  (HasCredential(cfg) /\ cfg.consent_acknowledged)

EnsureReadyFrame ==
    \A r \in Handlers :
        (locals[r].checked = None /\ locals'[r].checked # None) =>
            /\ locals'[r].checked = Some(config)
            /\ config' = config
            /\ rate_limit' = rate_limit
            /\ disk' = disk

EnsureReadyIsPure == []EnsureReadyResult /\ [][EnsureReadyFrame]_vars

\* A /status request that found neither credential nor consent and reports
\* the missing credential.
EnsureReadyReportsEachReason ==
    \E r \in Handlers :
        /\ kind[r] = "status"
        /\ locals[r].checked # None
        /\ ~HasCredential(locals[r].checked[1])
        /\ ~locals[r].checked[1].consent_acknowledged
        /\ locals[r].ready = ErrNoKey

\* C8 as stated: once a /chat call has succeeded, what /status reads from the
\* cache is the snapshot of the last call that succeeded.
StatusReportsLastSuccess ==
    \A r \in Handlers :
        (/\ kind[r] = "status"
         /\ pc[r] = "get_read"
         /\ returned # 0
         /\ \A q \in Handlers : pc[q] # "parse_body")
        => rate_limit = ok_snapshot

ConfigSavesOncePerAcceptedBody ==
    \A r \in Handlers :
        /\ saves[r] <= 1
        /\ (kind[r] = "config" /\ pc[r] = "done") =>
              /\ saves[r] = IF request[r].body \in {"object", "array"} THEN 1 ELSE 0
              /\ (request[r].body = "object" /\ response[r].code # 200)
                    => locals[r].exc = "OSError"

ConfigPatchFrame ==
    \/ config' = config
    \/ \E r \in Handlers :
          LET p == request'[r].patch IN
          /\ kind[r] = "config"
          /\ \/ /\ pc[r] = "received"
                /\ p.default_model # None
                /\ config' = [config EXCEPT !.default_model = p.default_model[1].val]
             \/ /\ pc[r] = "patch_profiles"
                /\ p.profiles # None
                /\ config' = [config EXCEPT !.profiles = p.profiles[1]]
             \/ /\ pc[r] = "patch_consent"
                /\ p.consent_acknowledged # None
                /\ \E b \in BOOLEAN :
                      /\ config' = [config EXCEPT !.consent_acknowledged = b]
                      /\ p.consent_acknowledged[1].type = "bool"
                            => b = (p.consent_acknowledged[1] = JBool(TRUE))

ConfigPatchApplied ==
    \A r \in Handlers :
        LET p == request'[r].patch IN
        /\ (pc[r] = "received" /\ pc'[r] = "patch_profiles" /\ p.default_model # None)
              => config'.default_model = p.default_model[1].val
        /\ (pc[r] = "patch_profiles" /\ pc'[r] = "patch_consent" /\ p.profiles # None)
              => config'.profiles = p.profiles[1]
        /\ (/\ pc[r] = "patch_consent"
            /\ pc'[r] = "save_open"
            /\ p.consent_acknowledged # None
            /\ p.consent_acknowledged[1].type = "bool")
              => config'.consent_acknowledged = (p.consent_acknowledged[1] = JBool(TRUE))

SaveFailureAnswered ==
    \A r \in Handlers :
        (kind[r] = "config" /\ pc[r] = "done" /\ locals[r].exc = "OSError") =>
            /\ saves[r] = 1
            /\ response[r].code = 400
            /\ ~response[r].result
            /\ response[r].error # ""
            /\ accepted = 1 =>
                  LET p == request[r].patch IN
                  /\ p.default_model # None
                        => config.default_model = p.default_model[1].val
                  /\ p.profiles # None => config.profiles = p.profiles[1]
                  /\ (/\ p.consent_acknowledged # None
                      /\ p.consent_acknowledged[1].type = "bool")
                        => config.consent_acknowledged =
                              (p.consent_acknowledged[1] = JBool(TRUE))

SaveFailureKeepsPatch ==
    \A r \in Handlers :
        (locals[r].exc = "" /\ locals'[r].exc = "OSError") => config' = config

SaveFailureKeepsPatchedConfig ==
    []SaveFailureAnswered /\ [][SaveFailureKeepsPatch]_vars

\* A /config request whose save failed, the patched model in memory and the
\* file still holding the old one.
SaveFailedAfterPatch ==
    \E r \in Handlers :
        /\ kind[r] = "config"
        /\ pc[r] = "done"
        /\ locals[r].exc = "OSError"
        /\ response[r].code = 400
        /\ request[r].patch.default_model = Some(JStr("gpt-4.1"))
        /\ config.default_model = "gpt-4.1"
        /\ disk.content = ToJson([config EXCEPT !.default_model = "gpt-4o"])

\* C11 as stated: once concurrent /config requests have all been answered
\* ok, none having met a persistence failure, the file is the serialization
\* of the configuration in memory.
ConfigFileMatchesMemory ==
    (/\ accepted = Cardinality(Handlers)
     /\ \A r \in Handlers :
           kind[r] = "config" /\ pc[r] = "done" /\ response[r] = ConfigOkResponse)
    => disk.content = ToJson(config)

\* C12: a request whose body is not JSON is answered with an error and
\* changes nothing: /chat with 500, no upstream call and no commit, /config
\* with 400 and no save; the step that rejects it leaves configuration,
\* cache, file and lock alone, and the handler can end, so that later
\* requests are served.
InvalidBodyAnswered ==
    \A r \in Handlers :
        request[r].body = "invalid" =>
            /\ pc[r] = "done"
            /\ response[r].code = IF kind[r] = "chat" THEN 500 ELSE 400
            /\ response[r].error = "Invalid JSON payload"
            /\ response[r].content_type = "application/json"
            /\ calls[r] = 0
            /\ commits[r] = 0
            /\ saves[r] = 0
            /\ lock # r
            /\ ENABLED Finish(r)

InvalidBodyFrame ==
    \A r \in Handlers :
        (request[r].body # "invalid" /\ request'[r].body = "invalid") =>
            /\ config' = config
            /\ rate_limit' = rate_limit
            /\ disk' = disk
            /\ lock' = lock

InvalidBodyChangesNothing == []InvalidBodyAnswered /\ [][InvalidBodyFrame]_vars

\* A /chat request rejected for its body, and a request accepted after it
\* that has been answered 200.
ServedAfterInvalidBody ==
    \E r, q \in Handlers :
        /\ kind[r] = "chat"
        /\ request[r].body = "invalid"
        /\ pc[r] = "done"
        /\ response[r].code = 500
        /\ serial[q] > serial[r]
        /\ pc[q] = "done"
        /\ response[q].code = 200

\* C13 as stated: a /config request with a field of invalid type, here a
\* consent_acknowledged that is a string, is not answered ok.
InvalidFieldTypeRejected ==
    \A r \in Handlers :
        (/\ kind[r] = "config"
         /\ pc[r] = "done"
         /\ request[r].patch.consent_acknowledged # None
         /\ request[r].patch.consent_acknowledged[1].type # "bool")
        => (response[r].code = 400 /\ ~response[r].result)

\* C14 as stated: a request outside the routing table, a method other than
\* GET, POST and OPTIONS included, is answered with a JSON not-found body
\* that carries the cross-origin header.
UnroutedAnsweredNotFound ==
    \A r \in Handlers :
        (kind[r] \in {"other_get", "other_post", "unsupported"} /\ pc[r] = "done") =>
            /\ response[r].code = 404
            /\ response[r].error = "Not found"
            /\ response[r].content_type = "application/json"
            /\ response[r].cors

\* C15: every accepted request is answered, given that each upstream call
\* returns, fails or times out: a timeout is answered as an error, waiting
\* for the lock ends, and what is sent is a response with a status.
RequestAnswered ==
    \A r \in Handlers :
        /\ pc[r] = "done" => response[r].code # 0
        /\ locals[r].exc = "RequestException" =>
              (pc[r] = "done" /\ response[r].code = 500 /\ response[r].error # "")

EveryRequestIsAnswered ==
    /\ []RequestAnswered
    /\ \A r \in Handlers : (pc[r] = "received") ~> (pc[r] = "done")

\* A /chat request whose upstream call timed out has been answered, and a
\* request accepted after it has been answered too.
AnsweredAfterTimeout ==
    \E r, q \in Handlers :
        /\ locals[r].exc = "RequestException"
        /\ pc[r] = "done"
        /\ serial[q] > serial[r]
        /\ pc[q] = "done"

\* C16: no request holds the lock while its upstream call is in flight: the
\* lock is held only by a handler that is copying the snapshot, so a /status
\* request that meets a /chat request waiting on the upstream either finds
\* the lock free and can take it, or waits for a copy to end.
LockHeldOnlyWhileCopying ==
    /\ lock # 0 => pc[lock] = "get_read"
    /\ \A q \in Handlers :
          pc[q] \in {"post", "await", "upd_assign", "parse_body"} =>
              /\ lock # q
              /\ \A r \in Handlers :
                    (kind[r] = "status" /\ pc[r] = "get_acquire" /\ lock = 0)
                        => ENABLED GetAcquire(r)

\* Two /status requests, accepted one after the other behind a /chat request
\* that is still waiting on the upstream, the second of them answered.
StatusAnsweredDuringUpstreamCall ==
    \E q, r \in Handlers :
        /\ kind[q] = "chat"
        /\ pc[q] = "await"
        /\ kind[r] = "status"
        /\ pc[r] = "done"
        /\ serial[r] >= serial[q] + 2
        /\ response[r].code = 200

\* C17 as stated: when an upstream call is issued, the configuration holds a
\* credential and the consent; here, when the only other requests so far
\* are /config requests that have been answered ok.
IssuesCallWhenReady ==
    \A r \in Handlers :
        (/\ calls'[r] = calls[r] + 1
         /\ accepted = Cardinality(Handlers)
         /\ \A q \in Handlers \ {r} :
               kind[q] = "config" /\ pc[q] = "done" /\ response[q] = ConfigOkResponse)
        => (HasCredential(config) /\ config.consent_acknowledged)

CallIssuedOnlyWhenReady == [][IssuesCallWhenReady]_vars

\* C18 as stated: the model tag of the snapshot a successful /chat call
\* stored is the "model" entry of the payload that was sent upstream.
SnapshotModelIsPayloadModel ==
    \A r \in Handlers :
        (/\ kind[r] = "chat"
         /\ commits[r] = 1
         /\ \/ pc[r] \in {"get_acquire", "get_read"}
            \/ (pc[r] = "done" /\ response[r].code = 200))
        => request[r].model = Some(JStr(locals[r].rl.model[1]))

\* C19 as stated: the cached remaining_requests and remaining_tokens are each
\* unknown or a non-negative integer.
CachedCountsNonNegative ==
    \A f \in {"remaining_requests", "remaining_tokens"} :
        rate_limit[f] = None \/ rate_limit[f][1] >= 0

\* C20 as stated: a /status response shows the configuration entirely
\* before or entirely after a concurrent /config patch; here for the first
\* two requests, a /status and a /config that patches default_model,
\* profiles and consent_acknowledged together.
StatusSeesWholePatch ==
    \A r, q \in Handlers :
        (/\ accepted = 2
         /\ kind[r] = "status"
         /\ pc[r] = "done"
         /\ kind[q] = "config"
         /\ request[q].patch =
               Patch(Some(JStr("gpt-4.1")), Some(<<"gpt-4.1">>), Some(JBool(TRUE)), None))
        => \/ /\ response[r].default_model = "gpt-4o"
              /\ response[r].profiles = DefaultProfiles
           \/ /\ response[r].default_model = "gpt-4.1"
              /\ response[r].profiles = <<"gpt-4.1">>
              /\ response[r].ready = HasCredential(config)

====
